---- MODULE Spec2Model ----
(***************************************************************************)
(* Model of the ode5bmp codec: the pixel grid (models.rs), the geometry    *)
(* helpers (helpers.rs), the two packed headers and the encoder (repr.rs)  *)
(* and the decoder Bmp::read_to_bmp (models.rs).                           *)
(*                                                                         *)
(* Rust vectors and arrays are 0-indexed; a vector v is modelled as a TLA+ *)
(* sequence whose element v[i] is At(v, i).                                *)
(***************************************************************************)
EXTENDS Integers, Sequences, FiniteSets, TLC

VARIABLES
    width,      \* Bmp.width of the grid being built
    height,     \* Bmp.height
    pixels,     \* Bmp.pixels, row-major Vec<BMPixel> (packed u32 values)
    pc,         \* position of the driving program
    ops,        \* number of set_pixel / fill calls made so far
    file,       \* the bytes of the file on disk
    result,     \* what the last read_to_bmp did
    geom        \* what the geometry helpers returned

vars == <<width, height, pixels, pc, ops, file, result, geom>>

----------------------------------------------------------------------------
(* Bounds of the model *)

MaxWidth == 2
MaxHeight == 2
MaxOps == 2
MaxGeomWidth == 48
MaxGeomHeight == 30
MaxSizeImage == 16

----------------------------------------------------------------------------
(* Integer widths and vector access *)

\* Every usize and u32 value of the model stays far below 2^31, so the
\* casts "as u32" and "as usize" of the source leave it unchanged.

At(v, i) == v[i + 1]

to_le_bytes_u32(n) ==
    << n % 256, (n \div 256) % 256, (n \div 65536) % 256, (n \div 16777216) % 256 >>

to_le_bytes_u16(n) ==
    << n % 256, (n \div 256) % 256 >>

from_le_bytes_u32(b) ==
    b[1] + 256 * b[2] + 65536 * b[3] + 16777216 * b[4]

from_le_bytes_u16(b) ==
    b[1] + 256 * b[2]

----------------------------------------------------------------------------
(* models.rs: BMPixel *)

EMPTY == 0

red(p) == (p \div 65536) % 256

green(p) == (p \div 256) % 256

blue(p) == p % 256

----------------------------------------------------------------------------
(* helpers.rs *)

\* calculate_row_length with the padding not reduced modulo 4
calculate_row_length_unreduced(w) ==
    LET row_length == w * 3
        padding    == 4 - (row_length % 4)
    IN  row_length + padding

calculate_row_length(w) ==
    LET row_length == w * 3
        padding    == (4 - (row_length % 4)) % 4
    IN  row_length + padding

calculate_image_size(w, h) == calculate_row_length(w) * h

----------------------------------------------------------------------------
(* repr.rs: FileHeader and InfoHeader, #[repr(packed)] *)

SizeOfFileHeader == 14
SizeOfInfoHeader == 40

FileHeader_new(bfSize) ==
    [ bfType       |-> <<66, 77>>,
      bfSize       |-> bfSize,
      bfReserved1  |-> 0,
      bfReserved2  |-> 0,
      bfOffBits    |-> 54 ]

FileHeader_to_bytes(h) ==
    h.bfType
      \o to_le_bytes_u32(h.bfSize)
      \o to_le_bytes_u16(h.bfReserved1)
      \o to_le_bytes_u16(h.bfReserved2)
      \o to_le_bytes_u32(h.bfOffBits)

FileHeader_from_bytes(bytes) ==
    [ bfType       |-> << At(bytes, 0), At(bytes, 1) >>,
      bfSize       |-> from_le_bytes_u32(<< At(bytes, 2), At(bytes, 3), At(bytes, 4), At(bytes, 5) >>),
      bfReserved1  |-> from_le_bytes_u16(<< At(bytes, 6), At(bytes, 7) >>),
      bfReserved2  |-> from_le_bytes_u16(<< At(bytes, 8), At(bytes, 9) >>),
      bfOffBits    |-> from_le_bytes_u32(<< At(bytes, 10), At(bytes, 11), At(bytes, 12), At(bytes, 13) >>) ]

InfoHeader_default ==
    [ biSize          |-> SizeOfInfoHeader,
      biWidth         |-> 0,
      biHeight        |-> 0,
      biPlanes        |-> 1,
      biBitCount      |-> 24,
      biCompression   |-> 0,
      biSizeImage     |-> 0,
      biXPelsPerMeter |-> 0,
      biYPelsPerMeter |-> 0,
      biClrUsed       |-> 0,
      biClrImportant  |-> 0 ]

InfoHeader_to_bytes(h) ==
    to_le_bytes_u32(h.biSize)
      \o to_le_bytes_u32(h.biWidth)
      \o to_le_bytes_u32(h.biHeight)
      \o to_le_bytes_u16(h.biPlanes)
      \o to_le_bytes_u16(h.biBitCount)
      \o to_le_bytes_u32(h.biCompression)
      \o to_le_bytes_u32(h.biSizeImage)
      \o to_le_bytes_u32(h.biXPelsPerMeter)
      \o to_le_bytes_u32(h.biYPelsPerMeter)
      \o to_le_bytes_u32(h.biClrUsed)
      \o to_le_bytes_u32(h.biClrImportant)

InfoHeader_from_bytes(bytes) ==
    LET u32at(i) == from_le_bytes_u32(<< At(bytes, i), At(bytes, i + 1), At(bytes, i + 2), At(bytes, i + 3) >>)
        u16at(i) == from_le_bytes_u16(<< At(bytes, i), At(bytes, i + 1) >>)
    IN  [ biSize          |-> u32at(0),
          biWidth         |-> u32at(4),
          biHeight        |-> u32at(8),
          biPlanes        |-> u16at(12),
          biBitCount      |-> u16at(14),
          biCompression   |-> u32at(16),
          biSizeImage     |-> u32at(20),
          biXPelsPerMeter |-> u32at(24),
          biYPelsPerMeter |-> u32at(28),
          biClrUsed       |-> u32at(32),
          biClrImportant  |-> u32at(36) ]

----------------------------------------------------------------------------
(* repr.rs: Ode5Bmp, the encoder *)

Ode5Bmp_default ==
    [ file_header |-> FileHeader_new(0),
      info_header |-> InfoHeader_default,
      data        |-> <<>> ]

\* Vec::resize(new_len, value)
resize(v, new_len, value) ==
    [ i \in 1..new_len |-> IF i <= Len(v) THEN v[i] ELSE value ]

\* with_dimensions with the info header left out of the file size
with_dimensions_short(self, w, h) ==
    LET bi_size_img == calculate_image_size(w, h)
        file_size   == SizeOfFileHeader + bi_size_img
    IN  [ file_header |-> [ self.file_header EXCEPT !.bfSize = file_size ],
          info_header |-> [ self.info_header EXCEPT !.biWidth = w,
                                                    !.biHeight = h,
                                                    !.biSizeImage = bi_size_img ],
          data        |-> resize(self.data, bi_size_img, 0) ]

with_dimensions(self, w, h) ==
    LET bi_size_img == calculate_image_size(w, h)
        file_size   == SizeOfFileHeader + SizeOfInfoHeader + bi_size_img
    IN  [ file_header |-> [ self.file_header EXCEPT !.bfSize = file_size ],
          info_header |-> [ self.info_header EXCEPT !.biWidth = w,
                                                    !.biHeight = h,
                                                    !.biSizeImage = bi_size_img ],
          data        |-> resize(self.data, bi_size_img, 0) ]

\* One iteration of the body of the two loops of with_pixels.
with_pixels_body(data, pxs, biWidth, biHeight, row_length, y, x) ==
    LET index == y * row_length + x * 3
        pixel == At(pxs, y * biWidth + x)
    IN  [ data EXCEPT ![index + 1] = blue(pixel),
                      ![index + 2] = green(pixel),
                      ![index + 3] = red(pixel) ]

\* for y in (0..biHeight).rev() { for x in 0..biWidth { ... } }, k iterations done
RECURSIVE with_pixels_loop(_, _, _, _, _, _)
with_pixels_loop(data, pxs, biWidth, biHeight, row_length, k) ==
    IF k >= biWidth * biHeight
    THEN data
    ELSE LET y == (biHeight - 1) - (k \div biWidth)
             x == k % biWidth
         IN  with_pixels_loop(
                 with_pixels_body(data, pxs, biWidth, biHeight, row_length, y, x),
                 pxs, biWidth, biHeight, row_length, k + 1)

with_pixels(self, pxs) ==
    LET row_length == calculate_row_length(self.info_header.biWidth)
    IN  [ self EXCEPT !.data = with_pixels_loop(self.data, pxs,
                                                self.info_header.biWidth,
                                                self.info_header.biHeight,
                                                row_length, 0) ]

Ode5Bmp_new(bmp) ==
    with_pixels(with_dimensions(Ode5Bmp_default, bmp.width, bmp.height), bmp.pixels)

Ode5Bmp_to_bytes(self) ==
    FileHeader_to_bytes(self.file_header)
      \o InfoHeader_to_bytes(self.info_header)
      \o self.data

----------------------------------------------------------------------------
(* models.rs: Bmp, the pixel grid *)

Bmp_new(w, h) ==
    [ width |-> w, height |-> h, pixels |-> [ i \in 1..(w * h) |-> EMPTY ] ]

\* set_pixel that pushes the pixel when the index is past the end
set_pixel_growing(bmp, x, y, pixel) ==
    LET i == y * bmp.width + x
    IN  IF i >= Len(bmp.pixels)
        THEN [ panicked |-> FALSE,
               bmp |-> [ bmp EXCEPT !.pixels = Append(bmp.pixels, pixel) ] ]
        ELSE [ panicked |-> FALSE,
               bmp |-> [ bmp EXCEPT !.pixels = [ bmp.pixels EXCEPT ![i + 1] = pixel ] ] ]

\* self.pixels[y * self.width + x] = pixel; the index is bounds-checked
set_pixel(bmp, x, y, pixel) ==
    LET i == y * bmp.width + x
    IN  IF i >= Len(bmp.pixels)
        THEN [ panicked |-> TRUE, bmp |-> bmp ]
        ELSE [ panicked |-> FALSE,
               bmp |-> [ bmp EXCEPT !.pixels = [ bmp.pixels EXCEPT ![i + 1] = pixel ] ] ]

\* for y in y1..y2 { for x in x1..x2 { set_pixel } }, k iterations done
RECURSIVE fill_loop(_, _, _, _)
fill_loop(bmp, bounds, pixel, k) ==
    LET nx == IF bounds.x2 > bounds.x1 THEN bounds.x2 - bounds.x1 ELSE 0
        ny == IF bounds.y2 > bounds.y1 THEN bounds.y2 - bounds.y1 ELSE 0
    IN  IF k >= nx * ny
        THEN [ panicked |-> FALSE, bmp |-> bmp ]
        ELSE LET y == bounds.y1 + (k \div nx)
                 x == bounds.x1 + (k % nx)
                 r == set_pixel(bmp, x, y, pixel)
             IN  IF r.panicked THEN r ELSE fill_loop(r.bmp, bounds, pixel, k + 1)

fill(bmp, bounds, pixel) == fill_loop(bmp, bounds, pixel, 0)

----------------------------------------------------------------------------
(* models.rs: Bmp::read_to_bmp, the decoder *)

\* Read::read_exact of n bytes at cursor pos: an empty buffer is always filled
read_exact_ok(stream, pos, n) == n = 0 \/ pos + n <= Len(stream)

read_exact(stream, pos, n) == SubSeq(stream, pos + 1, pos + n)

\* the seek left out: the cursor stays right after the two headers
seek_skipped(cursor, bfOffBits) == cursor

\* file.seek(SeekFrom::Start(bfOffBits)): the cursor after the seek
seek_from_start(cursor, bfOffBits) == bfOffBits

\* (width as f64 / (8.0 / 24_f64)).ceil() as usize.  8.0/24.0 rounds to the
\* double just below 1/3, the quotient rounds to 3*width exactly, so the
\* result is the ceiling of the exact quotient width*24/8.
bytes_per_row_of(w) == (w * 24 + 7) \div 8

Failure(outcome) ==
    [ outcome |-> outcome, width |-> 0, height |-> 0, pixels |-> <<>>,
      data |-> <<>>, bytes_per_row |-> 0 ]

NoResult == Failure("none")

\* for y in 0..height { for x in 0..width { ... pixels.push(..) } }, k pushes done
RECURSIVE read_pixels_loop(_, _, _, _, _, _)
read_pixels_loop(data, w, h, bytes_per_row, k, acc) ==
    IF k >= w * h
    THEN [ panicked |-> FALSE, pixels |-> acc ]
    ELSE LET y == k \div w
             x == k % w
             data_index == y * bytes_per_row + x * 3
         IN  IF data_index + 2 >= Len(data)
             THEN [ panicked |-> TRUE, pixels |-> <<>> ]
             ELSE LET b == At(data, data_index)
                      g == At(data, data_index + 1)
                      r == At(data, data_index + 2)
                      pixel_value == r * 65536 + g * 256 + b
                  IN  read_pixels_loop(data, w, h, bytes_per_row, k + 1,
                                       Append(acc, pixel_value))

read_to_bmp(stream) ==
    IF ~ read_exact_ok(stream, 0, SizeOfFileHeader)
    THEN Failure("Failed to read file header")
    ELSE
    LET file_header == FileHeader_from_bytes(read_exact(stream, 0, SizeOfFileHeader))
    IN
    IF file_header.bfType # <<66, 77>>
    THEN Failure("Not a BMP file")
    ELSE
    IF ~ read_exact_ok(stream, SizeOfFileHeader, SizeOfInfoHeader)
    THEN Failure("Failed to read info header")
    ELSE
    LET info_header == InfoHeader_from_bytes(
                           read_exact(stream, SizeOfFileHeader, SizeOfInfoHeader))
    IN
    IF info_header.biBitCount # 24
    THEN Failure("Only 24-bit BMP files are supported")
    ELSE
    IF info_header.biCompression # 0
    THEN Failure("Compressed BMP files are not supported")
    ELSE
    LET w == info_header.biWidth
        h == info_header.biHeight
        cursor == seek_from_start(SizeOfFileHeader + SizeOfInfoHeader,
                                  file_header.bfOffBits)
        bytes_per_row == bytes_per_row_of(w)
    IN
    IF ~ read_exact_ok(stream, cursor, info_header.biSizeImage)
    THEN Failure("Failed to read pixel data")
    ELSE
    LET data == read_exact(stream, cursor, info_header.biSizeImage)
        loop == read_pixels_loop(data, w, h, bytes_per_row, 0, <<>>)
    IN
    IF loop.panicked
    THEN [ Failure("index out of bounds") EXCEPT !.data = data ]
    ELSE [ outcome |-> "ok", width |-> w, height |-> h, pixels |-> loop.pixels,
           data |-> data, bytes_per_row |-> bytes_per_row ]

\* write_to_file: the bytes handed to write_all
write_to_file(bmp) == Ode5Bmp_to_bytes(Ode5Bmp_new(bmp))

----------------------------------------------------------------------------
(* The grid program: Bmp::new, then set_pixel / fill calls, then            *)
(* write_to_file, then read_to_bmp of the file written (main, test_write_bmp, *)
(* test_roundtrip).                                                         *)

\* empty, red, green, blue
PixelValues == { EMPTY, 16711680, 65280, 255 }

Boxes ==
    { b \in [ x1 : 0..MaxWidth, y1 : 0..MaxHeight, x2 : 0..MaxWidth, y2 : 0..MaxHeight ] :
        b.x1 <= b.x2 /\ b.y1 <= b.y2 }

TheBmp == [ width |-> width, height |-> height, pixels |-> pixels ]

NoGeom == [ done |-> FALSE, row_length |-> 0, image_size |-> 0 ]

Init ==
    /\ \E w \in 0..MaxWidth, h \in 0..MaxHeight :
          LET bmp == Bmp_new(w, h)
          IN  /\ width = bmp.width
              /\ height = bmp.height
              /\ pixels = bmp.pixels
    /\ pc = "build"
    /\ ops = 0
    /\ file = <<>>
    /\ result = NoResult
    /\ geom = NoGeom

Mutated(r) ==
    /\ width' = r.bmp.width
    /\ height' = r.bmp.height
    /\ pixels' = r.bmp.pixels
    /\ pc' = IF r.panicked THEN "panicked" ELSE "build"
    /\ ops' = ops + 1
    /\ UNCHANGED <<file, result, geom>>

SetPixel ==
    /\ pc = "build"
    /\ ops < MaxOps
    /\ \E x \in 0..MaxWidth, y \in 0..MaxHeight, pixel \in PixelValues :
          Mutated(set_pixel(TheBmp, x, y, pixel))

Fill ==
    /\ pc = "build"
    /\ ops < MaxOps
    /\ \E bounds \in Boxes, pixel \in PixelValues :
          Mutated(fill(TheBmp, bounds, pixel))

WriteToFile ==
    /\ pc = "build"
    /\ file' = write_to_file(TheBmp)
    /\ pc' = "written"
    /\ UNCHANGED <<width, height, pixels, ops, result, geom>>

ReadToBmp ==
    /\ pc = "written"
    /\ result' = read_to_bmp(file)
    /\ pc' = "read"
    /\ UNCHANGED <<width, height, pixels, ops, file, geom>>

Next == SetPixel \/ Fill \/ WriteToFile \/ ReadToBmp

Spec == Init /\ [][Next]_vars

----------------------------------------------------------------------------
(* The geometry helpers applied to a width and a height. *)

InitGeom ==
    /\ width \in 0..MaxGeomWidth
    /\ height \in 0..MaxGeomHeight
    /\ pixels = <<>>
    /\ pc = "geom"
    /\ ops = 0
    /\ file = <<>>
    /\ result = NoResult
    /\ geom = NoGeom

Calculate ==
    /\ pc = "geom"
    /\ ~ geom.done
    /\ geom' = [ done |-> TRUE,
                 row_length |-> calculate_row_length(width),
                 image_size |-> calculate_image_size(width, height) ]
    /\ UNCHANGED <<width, height, pixels, pc, ops, file, result>>

NextGeom == Calculate

SpecGeom == InitGeom /\ [][NextGeom]_vars

----------------------------------------------------------------------------
(* read_to_bmp applied to streams that some other program wrote. *)

Signatures == { <<66, 77>>, <<77, 66>>, <<66, 0>> }
OffBitsChoices == { 50, 54, 56 }
BitCounts == { 24, 8 }
Compressions == { 0, 1 }

\* the byte a crafted stream holds at offset i past the two headers
BodyByte(i) == (i * 37 + 11) % 256

Craft(sig, off, w, h, bits, compression, size) ==
    LET hdr == SizeOfFileHeader + SizeOfInfoHeader
        len == IF off + size > hdr THEN off + size ELSE hdr
        fh  == [ FileHeader_new(len) EXCEPT !.bfType = sig, !.bfOffBits = off ]
        ih  == [ InfoHeader_default EXCEPT !.biWidth = w, !.biHeight = h,
                                           !.biBitCount = bits,
                                           !.biCompression = compression,
                                           !.biSizeImage = size ]
    IN  FileHeader_to_bytes(fh) \o InfoHeader_to_bytes(ih)
          \o [ i \in 1..(len - hdr) |-> BodyByte(hdr + i - 1) ]

TruncatedLengths(stream) ==
    { n \in { 1, 13, 14, 53, 54, 55, Len(stream) - 1 } : 0 <= n /\ n < Len(stream) }

InitDecode ==
    /\ width = 0
    /\ height = 0
    /\ pixels = <<>>
    /\ pc = "start"
    /\ ops = 0
    /\ file = <<>>
    /\ result = NoResult
    /\ geom = NoGeom

\* a stream some encoder produced is decoded
ReadCrafted ==
    /\ pc = "start"
    /\ \E sig \in Signatures, off \in OffBitsChoices,
          w \in 0..MaxWidth, h \in 0..MaxHeight,
          bits \in BitCounts, compression \in Compressions,
          size \in 0..MaxSizeImage :
          file' = Craft(sig, off, w, h, bits, compression, size)
    /\ result' = read_to_bmp(file')
    /\ pc' = "crafted"
    /\ UNCHANGED <<width, height, pixels, ops, geom>>

\* the stream cut short is decoded
ReadTruncated ==
    /\ pc = "crafted"
    /\ \E n \in TruncatedLengths(file) : file' = SubSeq(file, 1, n)
    /\ result' = read_to_bmp(file')
    /\ pc' = "altered"
    /\ UNCHANGED <<width, height, pixels, ops, geom>>

\* the stream with one byte past the headers changed is decoded
ReadPoked ==
    /\ pc = "crafted"
    /\ \E i \in 54..57 :
          /\ i < Len(file)
          /\ file' = [ file EXCEPT ![i + 1] = (file[i + 1] + 128) % 256 ]
    /\ result' = read_to_bmp(file')
    /\ pc' = "altered"
    /\ UNCHANGED <<width, height, pixels, ops, geom>>

NextDecode == ReadCrafted \/ ReadTruncated \/ ReadPoked

SpecDecode == InitDecode /\ [][NextDecode]_vars

----------------------------------------------------------------------------
(* Properties *)

\* 3w rounded up to the next multiple of 4
RoundedUpRow(w) == 4 * ((3 * w + 3) \div 4)

HeadersLen == 54

U32At(stream, i) ==
    At(stream, i) + 256 * At(stream, i + 1) + 65536 * At(stream, i + 2)
      + 16777216 * At(stream, i + 3)

U16At(stream, i) == At(stream, i) + 256 * At(stream, i + 1)

PixelData(stream) == SubSeq(stream, HeadersLen + 1, Len(stream))

\* C1: after a grid with width >= 1 and height >= 1 is written and the file
\* is read back, the decoded grid has the same width, the same height and the
\* same pixel at every coordinate.
C1_RoundTrip ==
    (pc = "read" /\ width >= 1 /\ height >= 1) =>
        /\ result.outcome = "ok"
        /\ result.width = width
        /\ result.height = height
        /\ result.pixels = pixels

\* C3: the encoded output is 54 + image_size(w,h) bytes long, bytes[2..6] hold
\* 54 + image_size(w,h) and bytes[10..14] hold 54, little-endian.
C3_HeaderSizes ==
    pc \in {"written", "read"} =>
        /\ Len(file) = 54 + RoundedUpRow(width) * height
        /\ U32At(file, 2) = 54 + RoundedUpRow(width) * height
        /\ U32At(file, 10) = 54

C3_Witness ==
    /\ pc = "written"
    /\ width = 2
    /\ height = 2
    /\ Len(file) = 70
    /\ U32At(file, 2) = 70

\* C4: encode writes the blue, green and red bytes of the pixel at (x, y), in
\* that order, at offset (height-1-y)*row_stride(width) + x*3 of the
\* pixel-data block.
C4_BottomUpEncode ==
    pc \in {"written", "read"} =>
        \A y \in 0..(height - 1), x \in 0..(width - 1) :
            LET offset == (height - 1 - y) * RoundedUpRow(width) + x * 3
                pixel  == At(pixels, y * width + x)
                block  == PixelData(file)
            IN  /\ At(block, offset) = pixel % 256
                /\ At(block, offset + 1) = (pixel \div 256) % 256
                /\ At(block, offset + 2) = (pixel \div 65536) % 256

\* C5: calculate_row_length(w) = 3w + ((4 - (3w mod 4)) mod 4), a multiple of
\* 4 that exceeds 3w by 0..3 (0 -> 0, 4 -> 12, 45 -> 136), and
\* calculate_image_size(w,h) = calculate_row_length(w) * h ((45,30) -> 4080).
C5_RowStride ==
    geom.done =>
        /\ geom.row_length = 3 * width + ((4 - ((3 * width) % 4)) % 4)
        /\ geom.row_length % 4 = 0
        /\ (geom.row_length - 3 * width) \in 0..3
        /\ (width = 0 => geom.row_length = 0)
        /\ (width = 4 => geom.row_length = 12)
        /\ (width = 45 => geom.row_length = 136)
        /\ geom.image_size = geom.row_length * height
        /\ ((width = 45 /\ height = 30) => geom.image_size = 4080)

C5_Witness ==
    /\ geom.done
    /\ width = 45
    /\ height = 30
    /\ geom.row_length = 136
    /\ geom.image_size = 4080

\* C6: from Bmp::new(width, height) on, after any set_pixel and fill calls,
\* failed ones included, the element count is width * height and width and
\* height are unchanged.
C6_GridSize ==
    /\ [](Len(pixels) = width * height)
    /\ [][width' = width /\ height' = height]_vars

C6_Witness ==
    /\ pc = "panicked"
    /\ ops = MaxOps
    /\ width = 2
    /\ height = 2
    /\ Len(pixels) = 4
    /\ \E i \in 1..Len(pixels) : pixels[i] # EMPTY

\* The header fields of a stream, by their byte offsets.
Signature(stream) == << At(stream, 0), At(stream, 1) >>
OffBitsOf(stream) == U32At(stream, 10)
WidthOf(stream) == U32At(stream, 18)
HeightOf(stream) == U32At(stream, 22)
BitCountOf(stream) == U16At(stream, 28)
CompressionOf(stream) == U32At(stream, 30)
SizeImageOf(stream) == U32At(stream, 34)

Decoded == pc \in {"crafted", "altered"}

\* The error kind each failure of read_to_bmp stands for.
ErrorKind(outcome) ==
    CASE outcome = "Not a BMP file" -> "FormatError"
      [] outcome \in { "Only 24-bit BMP files are supported",
                       "Compressed BMP files are not supported" } -> "UnsupportedFormatError"
      [] outcome \in { "Failed to read file header",
                       "Failed to read info header",
                       "Failed to read pixel data" } -> "TruncatedInputError"
      [] OTHER -> outcome

ErrorKinds == { "FormatError", "UnsupportedFormatError", "TruncatedInputError" }

\* C2: a stream whose first two bytes are not 0x42,0x4D fails with FormatError;
\* one with a valid signature and biBitCount # 24 or biCompression # 0 fails
\* with UnsupportedFormatError; one holding fewer bytes than a header needs or
\* than bfOffBits + biSizeImage fails with TruncatedInputError; every failure
\* is one of these three kinds and returns no grid.  (The conditions are taken
\* in the order decode meets them.)
C2_Rejection ==
    Decoded =>
        LET kind == ErrorKind(result.outcome)
            len  == Len(file)
        IN  /\ len < 14 => kind = "TruncatedInputError"
            /\ (len >= 14 /\ Signature(file) # <<66, 77>>) => kind = "FormatError"
            /\ (len >= 14 /\ len < 54 /\ Signature(file) = <<66, 77>>)
                  => kind = "TruncatedInputError"
            /\ (len >= 54 /\ Signature(file) = <<66, 77>>
                  /\ (BitCountOf(file) # 24 \/ CompressionOf(file) # 0))
                  => kind = "UnsupportedFormatError"
            /\ (len >= 54 /\ Signature(file) = <<66, 77>>
                  /\ BitCountOf(file) = 24 /\ CompressionOf(file) = 0
                  /\ len < OffBitsOf(file) + SizeImageOf(file))
                  => kind = "TruncatedInputError"
            /\ result.outcome # "ok"
                  => (kind \in ErrorKinds /\ result.pixels = <<>>)

\* C7: the row stride the decode path computes equals 3w rounded up to the
\* next multiple of 4, the stride of the encode path.
C7_SameStride ==
    (Decoded /\ result.outcome = "ok") =>
        result.bytes_per_row = RoundedUpRow(result.width)

\* C8: in a successful decode, the bytes at offset y*row_stride + x*3 of the
\* pixel-data block (blue, green, red) become the packed pixel at index
\* (height-1-y)*width + x of the returned grid.
C8_BottomUpDecode ==
    (Decoded /\ result.outcome = "ok") =>
        \A y \in 0..(result.height - 1), x \in 0..(result.width - 1) :
            LET offset == y * RoundedUpRow(result.width) + x * 3
            IN  offset + 2 < Len(result.data) =>
                    At(result.pixels, (result.height - 1 - y) * result.width + x)
                      = At(result.data, offset + 2) * 65536
                          + At(result.data, offset + 1) * 256
                          + At(result.data, offset)

\* the two streams have one length and differ only between offset 54 and bfOffBits
GapOnlyChange(old, new) ==
    /\ Len(old) = Len(new)
    /\ Len(old) >= HeadersLen
    /\ old # new
    /\ \A i \in 0..(Len(old) - 1) :
          At(old, i) # At(new, i) => (i >= HeadersLen /\ i < OffBitsOf(old))

\* C9: for a stream with a valid signature, biBitCount = 24 and
\* biCompression = 0, the pixel-data block decode uses is the biSizeImage bytes
\* at absolute offset bfOffBits, and changing bytes between offset 54 and
\* bfOffBits does not change what decode returns.
C9_HonoursOffBits ==
    [][ /\ result'.outcome \in {"ok", "index out of bounds"} =>
              result'.data = SubSeq(file', OffBitsOf(file') + 1,
                                    OffBitsOf(file') + SizeImageOf(file'))
        /\ GapOnlyChange(file, file') => result' = result
      ]_vars

C9_Witness ==
    /\ pc = "altered"
    /\ result.outcome = "ok"
    /\ Len(result.pixels) = 4
    /\ OffBitsOf(file) = 56
    /\ At(file, 54) # BodyByte(54)
    /\ result.data = SubSeq(file, 57, 56 + SizeImageOf(file))

\* C10: for a stream that passes the signature, bit-depth and compression
\* checks and supplies biSizeImage bytes at bfOffBits, decode reads no byte
\* outside the block and ends with a grid of the declared width and height.
C10_NoOutOfBounds ==
    ( /\ Decoded
      /\ Len(file) >= HeadersLen
      /\ Signature(file) = <<66, 77>>
      /\ BitCountOf(file) = 24
      /\ CompressionOf(file) = 0
      /\ Len(file) >= OffBitsOf(file) + SizeImageOf(file) ) =>
        /\ result.outcome = "ok"
        /\ result.width = WidthOf(file)
        /\ result.height = HeightOf(file)

====
